---- MODULE Spec2Model ----
(***************************************************************************)
(* Branch instrumentation of pynguin (generation/algorithms/wspy/          *)
(* branch_instrumentation.py): the coordinator's walk over an object       *)
(* graph, the recursive code-unit walker, the three probes it emits and    *)
(* the effect of the probes' bytecode on CPython's evaluation stack.        *)
(***************************************************************************)
EXTENDS Integers, Sequences, FiniteSets, TLC

VARIABLES
  members,       \* inspect.getmembers: container -> sequence of member values (name order)
  code,          \* function -> its __code__ (a code unit)
  code0,         \* function -> its __code__ before any instrumentation
  flagged,       \* functions carrying the "instrumented" attribute
  tracer_bound,  \* functions whose __globals__ hold the tracer
  predicate_id,  \* BranchInstrumentation._predicate_id
  function_id,   \* BranchInstrumentation._function_id
  events,        \* calls made so far, in order: tracer registrations and probe insertions
  pc,            \* "idle" | "running" | "done" | "failed" (AssertionError raised)
  seen,          \* the seen set of the instrument invocation under way
  stack,         \* call stack of instrument: frames [obj, entered, i]
  handed,        \* functions passed to instrument_function in this invocation, in order
  expanded,      \* objects whose members this invocation enumerated, in order
  attempt,       \* the last instrument_function call: [fn, was_flagged]
  probe,         \* the probe last executed: [kind, id, op]
  stack_in,      \* evaluation stack when that probe was entered
  stack_out,     \* evaluation stack when it was left
  calls          \* tracer hooks the probe called: [method, args]

vars == <<members, code, code0, flagged, tracer_bound, predicate_id, function_id,
          events, pc, seen, stack, handed, expanded, attempt, probe, stack_in,
          stack_out, calls>>

(***************************************************************************)
(* Bounds                                                                  *)
(***************************************************************************)
MaxMembers == 3     \* member entries in the whole object graph
MaxLen == 3         \* instructions of a drawn code unit
MaxStartId == 1     \* value of either counter before the first call
MaxStack == 3       \* depth of the evaluation stack at probe entry

(***************************************************************************)
(* Values: instruction arguments and stack slots share one shape            *)
(***************************************************************************)
StrV(s) == [k |-> "str", i |-> 0, s |-> s]
IntV(n) == [k |-> "int", i |-> n, s |-> ""]
Obj(s) == [k |-> "obj", i |-> 0, s |-> s]
Method(s) == [k |-> "method", i |-> 0, s |-> s]
Result(s) == [k |-> "result", i |-> 0, s |-> s]
NoArg == [k |-> "none", i |-> 0, s |-> ""]

\* bytecode.Instr and the pseudo-instructions (Label, SetLineno) of a Bytecode list
Instr(name, arg) == [cls |-> "Instr", name |-> name, arg |-> arg]
Pseudo(l) == [cls |-> "Label", name |-> "", arg |-> StrV(l)]

isinstance_Instr(x) == x.cls = "Instr"

CondJumpNames == {"POP_JUMP_IF_FALSE", "POP_JUMP_IF_TRUE",
                  "JUMP_IF_FALSE_OR_POP", "JUMP_IF_TRUE_OR_POP"}

is_cond_jump(x) == x.name \in CondJumpNames

INSTRUMENTED_FLAG == "instrumented"
TRACER_NAME == "tracer"

(***************************************************************************)
(* Code units: an instruction list and a constant pool                      *)
(***************************************************************************)
CodeUnit(instrs, consts) == [kind |-> "code", instrs |-> instrs, consts |-> consts]
PlainConst == [kind |-> "plain", instrs |-> <<>>, consts |-> <<>>]

\* hasattr(const, "co_code")
has_co_code(const) == const.kind = "code"

(***************************************************************************)
(* ListIterator (pynguin.utils.iterator): index into a mutable list         *)
(***************************************************************************)
ListIterator(elements) == [elements |-> elements, idx |-> -1]

LI_can_next(it) == it.idx + 1 < Len(it.elements)
LI_next(it) == IF LI_can_next(it) THEN [it EXCEPT !.idx = it.idx + 1] ELSE it
LI_current(it) == it.elements[it.idx + 1]
LI_has_previous(it) == it.idx > 0
LI_previous(it) == it.elements[it.idx]

LI_insert_before(it, insert, offset) ==
  LET at == it.idx - offset   \* 0-based position the slice assignment writes at
  IN  [elements |-> SubSeq(it.elements, 1, at) \o insert
                      \o SubSeq(it.elements, at + 1, Len(it.elements)),
       idx |-> it.idx + Len(insert)]

(***************************************************************************)
(* Probe emitter                                                            *)
(***************************************************************************)
\* The hook's return value is left on the stack.
BoolPredicateStmts_NoPop(id) ==
  << Instr("DUP_TOP", NoArg),
     Instr("LOAD_GLOBAL", StrV(TRACER_NAME)),
     Instr("LOAD_METHOD", StrV("passed_bool_predicate")),
     Instr("ROT_THREE", NoArg),
     Instr("ROT_THREE", NoArg),
     Instr("LOAD_CONST", IntV(id)),
     Instr("CALL_METHOD", IntV(2)) >>

BoolPredicateStmts(id) ==
  << Instr("DUP_TOP", NoArg),
     Instr("LOAD_GLOBAL", StrV(TRACER_NAME)),
     Instr("LOAD_METHOD", StrV("passed_bool_predicate")),
     Instr("ROT_THREE", NoArg),
     Instr("ROT_THREE", NoArg),
     Instr("LOAD_CONST", IntV(id)),
     Instr("CALL_METHOD", IntV(2)),
     Instr("POP_TOP", NoArg) >>

CmpPredicateStmts(id, cmp_arg) ==
  << Instr("DUP_TOP_TWO", NoArg),
     Instr("LOAD_GLOBAL", StrV(TRACER_NAME)),
     Instr("LOAD_METHOD", StrV("passed_cmp_predicate")),
     Instr("ROT_FOUR", NoArg),
     Instr("ROT_FOUR", NoArg),
     Instr("LOAD_CONST", IntV(id)),
     Instr("LOAD_CONST", cmp_arg),
     Instr("CALL_METHOD", IntV(4)),
     Instr("POP_TOP", NoArg) >>

FunctionEnteredStmts(id) ==
  << Instr("LOAD_GLOBAL", StrV(TRACER_NAME)),
     Instr("LOAD_METHOD", StrV("entered_function")),
     Instr("LOAD_CONST", IntV(id)),
     Instr("CALL_METHOD", IntV(1)),
     Instr("POP_TOP", NoArg) >>

\* The walker's working state: the iterator, the two counters, the call log.
Registered(kind, id) == [ev |-> "register", kind |-> kind, id |-> id]
Inserted(kind, id) == [ev |-> "insert", kind |-> kind, id |-> id]

\* The counter is not advanced after the probe is inserted.
add_bool_predicate_NoIncrement(w) ==
  [w EXCEPT
     !.events = w.events \o << Registered("predicate", w.pid), Inserted("predicate", w.pid) >>,
     !.it = LI_insert_before(w.it, BoolPredicateStmts(w.pid), 0)]

add_bool_predicate(w) ==
  [w EXCEPT
     !.events = w.events \o << Registered("predicate", w.pid), Inserted("predicate", w.pid) >>,
     !.it = LI_insert_before(w.it, BoolPredicateStmts(w.pid), 0),
     !.pid = w.pid + 1]

\* The probe put right before the branch, as for a boolean predicate.
add_cmp_predicate_NoOffset(w) ==
  LET cmp_op == LI_previous(w.it)
  IN  [w EXCEPT
         !.events = w.events \o << Registered("predicate", w.pid), Inserted("predicate", w.pid) >>,
         !.it = LI_insert_before(w.it, CmpPredicateStmts(w.pid, cmp_op.arg), 0),
         !.pid = w.pid + 1]

add_cmp_predicate(w) ==
  LET cmp_op == LI_previous(w.it)
  IN  [w EXCEPT
         !.events = w.events \o << Registered("predicate", w.pid), Inserted("predicate", w.pid) >>,
         !.it = LI_insert_before(w.it, CmpPredicateStmts(w.pid, cmp_op.arg), 1),
         !.pid = w.pid + 1]

\* The tracer is told of the function only after the probe is in place.
add_function_entered_LateRegister(w) ==
  [w EXCEPT
     !.events = w.events \o << Inserted("function", w.fid), Registered("function", w.fid) >>,
     !.it = LI_insert_before(w.it, FunctionEnteredStmts(w.fid), 0),
     !.fid = w.fid + 1]

add_function_entered(w) ==
  [w EXCEPT
     !.events = w.events \o << Registered("function", w.fid), Inserted("function", w.fid) >>,
     !.it = LI_insert_before(w.it, FunctionEnteredStmts(w.fid), 0),
     !.fid = w.fid + 1]

(***************************************************************************)
(* Code-unit walker                                                         *)
(***************************************************************************)
\* The opcode of the previous instruction is not looked at.
PreviousIsCompare_AnyInstr(it) ==
  /\ LI_has_previous(it)
  /\ isinstance_Instr(LI_previous(it))

\* The test of lines 70-74 on the iterator's position.
PreviousIsCompare(it) ==
  /\ LI_has_previous(it)
  /\ isinstance_Instr(LI_previous(it))
  /\ LI_previous(it).name = "COMPARE_OP"

\* function_entered_inserted is never set.
WalkBody_FlagNotSet(w) ==
  LET w1 == add_function_entered(w)
      current == LI_current(w1.it)
  IN  IF isinstance_Instr(current) /\ is_cond_jump(current)
      THEN IF PreviousIsCompare(w1.it)
           THEN add_cmp_predicate(w1)
           ELSE add_bool_predicate(w1)
      ELSE w1

\* One turn of the while loop's body, the iterator already advanced.
WalkBody(w) ==
  LET w1 == IF ~w.function_entered_inserted
            THEN [add_function_entered(w) EXCEPT !.function_entered_inserted = TRUE]
            ELSE w
      current == LI_current(w1.it)
  IN  IF isinstance_Instr(current) /\ is_cond_jump(current)
      THEN IF PreviousIsCompare(w1.it)
           THEN add_cmp_predicate(w1)
           ELSE add_bool_predicate(w1)
      ELSE w1

RECURSIVE WalkLoop(_)
WalkLoop(w) ==
  IF LI_can_next(w.it)
  THEN WalkLoop(WalkBody([w EXCEPT !.it = LI_next(w.it)]))
  ELSE w

\* r = [code, pid, fid, events]: the unit returned and the instance's state after.
\* code.replace(co_consts=...) followed by Bytecode.from_code / to_code keeps the
\* rewritten nested units in the pool, in pool order.
RECURSIVE instrument_code_recursive(_, _, _, _)
RECURSIVE InstrumentConsts(_, _, _, _, _)
InstrumentConsts(consts, n, pid, fid, ev) ==
  IF n = 0
  THEN [new_consts |-> <<>>, pid |-> pid, fid |-> fid, events |-> ev]
  ELSE LET before == InstrumentConsts(consts, n - 1, pid, fid, ev)
           const == consts[n]
       IN  IF has_co_code(const)
           THEN LET r == instrument_code_recursive(const, before.pid, before.fid,
                                                   before.events)
                IN  [new_consts |-> Append(before.new_consts, r.code),
                     pid |-> r.pid, fid |-> r.fid, events |-> r.events]
           ELSE [before EXCEPT !.new_consts = Append(before.new_consts, const)]

instrument_code_recursive(c, pid, fid, ev) ==
  LET cs == InstrumentConsts(c.consts, Len(c.consts), pid, fid, ev)
      w == WalkLoop([it |-> ListIterator(c.instrs),
                     function_entered_inserted |-> FALSE,
                     pid |-> cs.pid, fid |-> cs.fid, events |-> cs.events])
  IN  [code |-> CodeUnit(w.it.elements, cs.new_consts),
       pid |-> w.pid, fid |-> w.fid, events |-> w.events]

(***************************************************************************)
(* CPython's evaluation stack under the opcodes the probes use (top last)   *)
(***************************************************************************)
Top(st, n) == st[Len(st) - n + 1]        \* TOS is Top(st, 1)
Drop(st, n) == SubSeq(st, 1, Len(st) - n)

ExecInstr(e, ins) ==
  LET st == e.stack
  IN  CASE ins.name = "DUP_TOP" -> [e EXCEPT !.stack = Append(st, Top(st, 1))]
        [] ins.name = "DUP_TOP_TWO" ->
             [e EXCEPT !.stack = st \o << Top(st, 2), Top(st, 1) >>]
        [] ins.name = "LOAD_GLOBAL" -> [e EXCEPT !.stack = Append(st, Obj(ins.arg.s))]
        [] ins.name = "LOAD_METHOD" ->
             [e EXCEPT !.stack = Drop(st, 1) \o << Method(ins.arg.s), Top(st, 1) >>]
        [] ins.name = "ROT_THREE" ->
             [e EXCEPT !.stack = Drop(st, 3) \o << Top(st, 1), Top(st, 3), Top(st, 2) >>]
        [] ins.name = "ROT_FOUR" ->
             [e EXCEPT !.stack = Drop(st, 4)
                                   \o << Top(st, 1), Top(st, 4), Top(st, 3), Top(st, 2) >>]
        [] ins.name = "LOAD_CONST" -> [e EXCEPT !.stack = Append(st, ins.arg)]
        [] ins.name = "CALL_METHOD" ->
             LET argc == ins.arg.i
                 callee == Top(st, argc + 2)
                 self == Top(st, argc + 1)
             IN  [stack |-> Append(Drop(st, argc + 2), Result(callee.s)),
                  calls |-> Append(e.calls,
                                   [callee |-> callee, self |-> self,
                                    args |-> SubSeq(st, Len(st) - argc + 1, Len(st))])]
        [] ins.name = "POP_TOP" -> [e EXCEPT !.stack = Drop(st, 1)]
        [] OTHER -> e

RECURSIVE RunStmts(_, _, _)
RunStmts(e, stmts, n) ==
  IF n = 0 THEN e ELSE ExecInstr(RunStmts(e, stmts, n - 1), stmts[n])

RunProbe(stmts, st) == RunStmts([stack |-> st, calls |-> <<>>], stmts, Len(stmts))

(***************************************************************************)
(* Probes as they stand in an instrumented instruction list                 *)
(***************************************************************************)
\* The probe whose instructions start at position s (1-based) of instrs.
ProbeAt(instrs, s) ==
  LET n == Len(instrs)
      fits(len) == s >= 1 /\ s + len - 1 <= n
      first == instrs[s].name
  IN  IF ~fits(1) THEN [kind |-> "none", id |-> 0, op |-> NoArg, len |-> 0]
      ELSE IF /\ first = "DUP_TOP"
              /\ fits(Len(BoolPredicateStmts(0)))
              /\ instrs[s + 5].arg.k = "int"
              /\ SubSeq(instrs, s, s + Len(BoolPredicateStmts(0)) - 1)
                   = BoolPredicateStmts(instrs[s + 5].arg.i)
           THEN [kind |-> "bool", id |-> instrs[s + 5].arg.i, op |-> NoArg,
                 len |-> Len(BoolPredicateStmts(0))]
      ELSE IF /\ first = "DUP_TOP_TWO"
              /\ fits(Len(CmpPredicateStmts(0, NoArg)))
              /\ instrs[s + 5].arg.k = "int"
              /\ SubSeq(instrs, s, s + Len(CmpPredicateStmts(0, NoArg)) - 1)
                   = CmpPredicateStmts(instrs[s + 5].arg.i, instrs[s + 6].arg)
           THEN [kind |-> "cmp", id |-> instrs[s + 5].arg.i, op |-> instrs[s + 6].arg,
                 len |-> Len(CmpPredicateStmts(0, NoArg))]
      ELSE IF /\ first = "LOAD_GLOBAL"
              /\ fits(Len(FunctionEnteredStmts(0)))
              /\ instrs[s + 2].arg.k = "int"
              /\ SubSeq(instrs, s, s + Len(FunctionEnteredStmts(0)) - 1)
                   = FunctionEnteredStmts(instrs[s + 2].arg.i)
           THEN [kind |-> "entered", id |-> instrs[s + 2].arg.i, op |-> NoArg,
                 len |-> Len(FunctionEnteredStmts(0))]
      ELSE [kind |-> "none", id |-> 0, op |-> NoArg, len |-> 0]

(***************************************************************************)
(* The object graph and the code the functions start with                   *)
(***************************************************************************)
Containers == {"c1", "c2"}      \* inspect.isclass or inspect.ismethod
Functions == {"f1", "f2"}       \* inspect.isfunction
Opaque == {"o1"}                \* neither
Objects == Containers \cup Functions \cup Opaque

isfunction(v) == v \in Functions
isclass_or_ismethod(v) == v \in Containers

SeqsUpTo(S, n) == UNION {[1..k -> S] : k \in 0..n}

LoadA == Instr("LOAD_FAST", StrV("a"))
LoadB == Instr("LOAD_FAST", StrV("b"))
Compare == Instr("COMPARE_OP", StrV("<"))
JumpIfFalse == Instr("POP_JUMP_IF_FALSE", StrV("L"))
JumpIfTrue == Instr("POP_JUMP_IF_TRUE", StrV("L"))
Return == Instr("RETURN_VALUE", NoArg)

\* def inner(flag): if flag: ...
InnerUnit == CodeUnit(<< LoadA, JumpIfTrue, Pseudo("L"), Return >>, << PlainConst >>)
\* a body with a comparison branch, a boolean branch and a nested definition
OuterUnit == CodeUnit(<< LoadA, LoadB, Compare, JumpIfFalse, LoadA, JumpIfFalse,
                         Pseudo("L"), Return >>,
                      << PlainConst, InnerUnit >>)
\* a code object with no instruction at all
EmptyUnit == CodeUnit(<< >>, << >>)
\* def f(): return None
PlainUnit == CodeUnit(<< LoadA, Return >>, << PlainConst >>)

CodePool == {OuterUnit, InnerUnit}

NoAttempt == [fn |-> "", was_flagged |-> FALSE]
NoProbe == [kind |-> "none", id |-> 0, op |-> NoArg, len |-> 0]

InitRest ==
  /\ code0 = code
  /\ flagged = {}
  /\ tracer_bound = {}
  /\ events = << >>
  /\ pc = "idle"
  /\ seen = {}
  /\ stack = << >>
  /\ handed = << >>
  /\ expanded = << >>
  /\ attempt = NoAttempt
  /\ probe = NoProbe
  /\ stack_in = << >>
  /\ stack_out = << >>
  /\ calls = << >>

Init ==
  /\ members \in {m \in [Containers -> SeqsUpTo(Objects, MaxMembers)] :
                     Len(m["c1"]) + Len(m["c2"]) <= MaxMembers}
  /\ code = [f1 |-> OuterUnit, f2 |-> InnerUnit]
  /\ predicate_id = 0
  /\ function_id = 0
  /\ InitRest

(***************************************************************************)
(* instrument_function                                                      *)
(***************************************************************************)
\* The assertion of lines 40-42 compiled away: the flag is never found.
hasattr_instrumented_Unchecked(f) == FALSE

\* hasattr(to_instrument, "instrumented")
hasattr_instrumented(f) == f \in flagged

\* Lines 43-47, the assertion passed.
DoInstrumentFunction(f) ==
  LET r == instrument_code_recursive(code[f], predicate_id, function_id, events)
  IN  /\ flagged' = flagged \cup {f}
      /\ tracer_bound' = tracer_bound \cup {f}
      /\ code' = [code EXCEPT ![f] = r.code]
      /\ predicate_id' = r.pid
      /\ function_id' = r.fid
      /\ events' = r.events

\* Lines 40-42 failed: AssertionError, nothing written.
RaiseAssertion ==
  /\ pc' = "failed"
  /\ stack' = << >>
  /\ UNCHANGED <<flagged, tracer_bound, code, predicate_id, function_id, events>>

\* A caller outside the class calls instrument_function(f).
CallInstrumentFunction(f) ==
  /\ pc # "running"
  /\ attempt' = [fn |-> f, was_flagged |-> f \in flagged]
  /\ handed' = << f >>
  /\ expanded' = << >>
  /\ seen' = {}
  /\ IF hasattr_instrumented(f)
     THEN RaiseAssertion
     ELSE /\ DoInstrumentFunction(f)
          /\ pc' = "done"
          /\ stack' = << >>
  /\ UNCHANGED <<members, code0, probe, stack_in, stack_out, calls>>

(***************************************************************************)
(* instrument                                                               *)
(***************************************************************************)
Frame(obj) == [obj |-> obj, entered |-> FALSE, i |-> 0]
TopFrame == stack[Len(stack)]
Pop == SubSeq(stack, 1, Len(stack) - 1)

\* A caller outside the class calls instrument(root): seen is None, so a new set.
CallInstrument(root) ==
  /\ pc # "running"
  /\ pc' = "running"
  /\ seen' = {}
  /\ stack' = << Frame(root) >>
  /\ handed' = << >>
  /\ expanded' = << >>
  /\ attempt' = NoAttempt
  /\ UNCHANGED <<members, code, code0, flagged, tracer_bound, predicate_id,
                 function_id, events, probe, stack_in, stack_out, calls>>

\* The early return of lines 138-139 left out.
InSeen_Never(obj) == FALSE

\* obj in seen
InSeen(obj) == obj \in seen

\* Lines 135-142 of the call on top of the stack.
InstrumentEnter ==
  /\ pc = "running"
  /\ ~TopFrame.entered
  /\ IF InSeen(TopFrame.obj)
     THEN /\ stack' = Pop
          /\ pc' = IF Pop = << >> THEN "done" ELSE "running"
          /\ UNCHANGED <<seen, expanded>>
     ELSE /\ seen' = seen \cup {TopFrame.obj}
          /\ expanded' = Append(expanded, TopFrame.obj)
          /\ stack' = [stack EXCEPT ![Len(stack)] = [@ EXCEPT !.entered = TRUE, !.i = 1]]
          /\ pc' = "running"
  /\ attempt' = NoAttempt
  /\ UNCHANGED <<members, code, code0, flagged, tracer_bound, predicate_id,
                 function_id, events, handed, probe, stack_in, stack_out, calls>>

\* One turn of the loop of lines 143-147 over the members of the top call's obj.
InstrumentMember ==
  /\ pc = "running"
  /\ TopFrame.entered
  /\ TopFrame.i <= Len(members[TopFrame.obj])
  /\ LET value == members[TopFrame.obj][TopFrame.i]
         advanced == [stack EXCEPT ![Len(stack)] = [@ EXCEPT !.i = @ + 1]]
     IN  IF isfunction(value)
         THEN /\ handed' = Append(handed, value)
              /\ attempt' = [fn |-> value, was_flagged |-> value \in flagged]
              /\ IF hasattr_instrumented(value)
                 THEN RaiseAssertion
                 ELSE /\ DoInstrumentFunction(value)
                      /\ stack' = advanced
                      /\ pc' = "running"
         ELSE /\ stack' = IF isclass_or_ismethod(value)
                          THEN Append(advanced, Frame(value))
                          ELSE advanced
              /\ attempt' = NoAttempt
              /\ UNCHANGED <<pc, handed, flagged, tracer_bound, code, predicate_id,
                             function_id, events>>
  /\ UNCHANGED <<members, code0, seen, expanded, probe, stack_in, stack_out, calls>>

\* The loop is over: the call on top of the stack returns.
InstrumentReturn ==
  /\ pc = "running"
  /\ TopFrame.entered
  /\ TopFrame.i > Len(members[TopFrame.obj])
  /\ stack' = Pop
  /\ pc' = IF Pop = << >> THEN "done" ELSE "running"
  /\ attempt' = NoAttempt
  /\ UNCHANGED <<members, code, code0, flagged, tracer_bound, predicate_id,
                 function_id, events, seen, handed, expanded, probe, stack_in,
                 stack_out, calls>>

Next ==
  \/ \E root \in Containers : CallInstrument(root)
  \/ \E f \in Functions : CallInstrumentFunction(f)
  \/ InstrumentEnter
  \/ InstrumentMember
  \/ InstrumentReturn

Spec == Init /\ [][Next]_vars

(***************************************************************************)
(* The walker on drawn code units                                           *)
(***************************************************************************)
Alphabet == {LoadA, Compare, JumpIfFalse, Pseudo("L")}

\* a unit nested two deep, the innermost one without instructions
DeepUnit == CodeUnit(<< Compare, JumpIfTrue >>, << EmptyUnit >>)

ConstPools == { << >>, << PlainConst, InnerUnit >>, << DeepUnit >> }

DrawnUnits ==
  {CodeUnit(is, cs) : is \in SeqsUpTo(Alphabet, MaxLen), cs \in ConstPools} \cup CodePool

WalkerInit ==
  /\ members = [c \in Containers |-> << >>]
  /\ code \in {[f1 |-> u, f2 |-> PlainUnit] : u \in DrawnUnits}
  /\ predicate_id \in 0..MaxStartId
  /\ function_id \in 0..MaxStartId
  /\ InitRest

WalkerNext == \E f \in Functions : CallInstrumentFunction(f)

WalkerSpec == WalkerInit /\ [][WalkerNext]_vars

(***************************************************************************)
(* The probes of instrumented code run on the evaluation stack              *)
(***************************************************************************)
RECURSIVE Units(_)
Units(u) == {u} \cup UNION {Units(u.consts[n]) :
                              n \in {m \in 1..Len(u.consts) : has_co_code(u.consts[m])}}

StackValues == {Obj("a"), Obj("b")}
Stacks == SeqsUpTo(StackValues, MaxStack)

\* What the probe's first instructions read from the stack.
Operands(kind) == CASE kind = "bool" -> 1 [] kind = "cmp" -> 2 [] OTHER -> 0

\* Each behaviour follows one execution of one probe.
ExecProbe ==
  /\ pc # "running"
  /\ probe = NoProbe
  /\ \E f \in flagged : \E u \in Units(code[f]) : \E s \in 1..Len(u.instrs) :
       \E st \in Stacks :
         LET p == ProbeAt(u.instrs, s)
             r == RunProbe(SubSeq(u.instrs, s, s + p.len - 1), st)
         IN  /\ p.kind # "none"
             /\ Len(st) >= Operands(p.kind)
             /\ probe' = p
             /\ stack_in' = st
             /\ stack_out' = r.stack
             /\ calls' = r.calls
  /\ UNCHANGED <<members, code, code0, flagged, tracer_bound, predicate_id,
                 function_id, events, pc, seen, stack, handed, expanded, attempt>>

ProbeInit ==
  /\ members = [c \in Containers |-> << >>]
  /\ code \in {[f1 |-> u, f2 |-> InnerUnit] : u \in CodePool}
  /\ predicate_id \in 0..MaxStartId
  /\ function_id \in 0..MaxStartId
  /\ InitRest

ProbeNext ==
  \/ \E f \in Functions : CallInstrumentFunction(f)
  \/ ExecProbe

ProbeSpec == ProbeInit /\ [][ProbeNext]_vars

(***************************************************************************)
(* Reading an instrumented unit against the unit it was made from           *)
(***************************************************************************)
\* Positions of instrs outside every probe, in order.
RECURSIVE OrigPositions(_, _)
OrigPositions(instrs, s) ==
  IF s > Len(instrs) THEN << >>
  ELSE LET p == ProbeAt(instrs, s)
       IN  IF p.kind # "none"
           THEN OrigPositions(instrs, s + p.len)
           ELSE << s >> \o OrigPositions(instrs, s + 1)

\* The probes standing in instrs, in order.
RECURSIVE ProbeList(_, _)
ProbeList(instrs, s) ==
  IF s > Len(instrs) THEN << >>
  ELSE LET p == ProbeAt(instrs, s)
       IN  IF p.kind # "none"
           THEN << p >> \o ProbeList(instrs, s + p.len)
           ELSE ProbeList(instrs, s + 1)

\* The probe whose last instruction stands right before position q.
ProbeBefore(instrs, q) ==
  LET starts == {s \in 1..(q - 1) : ProbeAt(instrs, s).kind # "none"
                                     /\ s + ProbeAt(instrs, s).len = q}
  IN  IF starts = {} THEN NoProbe ELSE ProbeAt(instrs, CHOOSE s \in starts : TRUE)

\* A unit before instrumentation paired with what the walker made of it, at
\* every depth of the constant pool.
RECURSIVE UnitPairs(_, _)
UnitPairs(o, n) ==
  {<< o, n >>} \cup
  UNION {UnitPairs(o.consts[m], n.consts[m]) :
           m \in {x \in 1..Len(o.consts) : has_co_code(o.consts[x]) /\ x <= Len(n.consts)}}

InstrumentedPairs == UNION {UnitPairs(code0[f], code[f]) : f \in flagged}

IsCondJump(x) == isinstance_Instr(x) /\ is_cond_jump(x)
IsCompare(x) == isinstance_Instr(x) /\ x.name = "COMPARE_OP"
CondJumps(instrs) == {k \in 1..Len(instrs) : IsCondJump(instrs[k])}
AfterCompare(instrs, k) == k > 1 /\ IsCompare(instrs[k - 1])

ProbeKinds(instrs, kinds) ==
  LET ps == ProbeList(instrs, 1)
  IN  {i \in 1..Len(ps) : ps[i].kind \in kinds}

(***************************************************************************)
(* Claims about the walker (WalkerSpec)                                     *)
(***************************************************************************)
\* The instructions of n outside its probes are exactly those of o, in order.
ProbesApart(o, n) ==
  LET pos == OrigPositions(n.instrs, 1)
  IN  [i \in 1..Len(pos) |-> n.instrs[pos[i]]] = o.instrs

\* C3: every instrumented unit that had at least one instruction, at whatever
\* depth of a constant pool, holds one predicate probe per conditional branch
\* of the original and exactly one function-entry probe, and nothing else was
\* added: taking the probes out gives back the original instructions.
C3_CoverageOfInjectionPoints ==
  \A pr \in InstrumentedPairs :
    LET o == pr[1]
        n == pr[2]
    IN  Len(o.instrs) > 0 =>
          /\ Cardinality(ProbeKinds(n.instrs, {"bool", "cmp"}))
               = Cardinality(CondJumps(o.instrs))
          /\ Cardinality(ProbeKinds(n.instrs, {"entered"})) = 1
          /\ ProbesApart(o, n)

\* A nested unit with two branches of its own, inside an instrumented function
\* whose own body has a branch too.
C3_Witness ==
  /\ "f1" \in flagged
  /\ Cardinality(CondJumps(code0["f1"].instrs)) >= 1
  /\ \E pr \in UnitPairs(code0["f1"], code["f1"]) :
       /\ pr[1] # code0["f1"]
       /\ Cardinality(CondJumps(pr[1].instrs)) >= 1
       /\ Cardinality(ProbeKinds(pr[2].instrs, {"bool", "cmp"})) >= 1

\* C4: in every instrumented unit, a conditional branch right after a
\* COMPARE_OP has a comparison probe ending right before that COMPARE_OP, and
\* every other conditional branch (the first instruction of the unit included)
\* has a boolean probe ending right before the branch; the call that
\* instrumented it returned.
C4_Classification ==
  /\ \A pr \in InstrumentedPairs :
       LET o == pr[1]
           n == pr[2]
           pos == OrigPositions(n.instrs, 1)
       IN  \A k \in CondJumps(o.instrs) :
             /\ k <= Len(pos)
             /\ IF AfterCompare(o.instrs, k)
                THEN /\ ProbeBefore(n.instrs, pos[k - 1]).kind = "cmp"
                     /\ ProbeBefore(n.instrs, pos[k]).kind = "none"
                ELSE ProbeBefore(n.instrs, pos[k]).kind = "bool"
  /\ (attempt # NoAttempt /\ ~attempt.was_flagged) => pc = "done"

\* A unit that opens with a conditional branch and has a compared branch later.
C4_Witness ==
  /\ "f1" \in flagged
  /\ pc = "done"
  /\ Len(code0["f1"].instrs) >= 3
  /\ IsCondJump(code0["f1"].instrs[1])
  /\ \E k \in CondJumps(code0["f1"].instrs) : AfterCompare(code0["f1"].instrs, k)

HookCall(name, args) ==
  << [callee |-> Method(name), self |-> Obj(TRACER_NAME), args |-> args] >>

\* C8: for a branch right after a comparison, the probe stands right before
\* the comparison, the comparison and the branch follow it unchanged and
\* adjacent, and run on operands (a, b) the probe calls passed_cmp_predicate
\* with (a, b, p, op), p a registered predicate ID; for any other branch the
\* probe stands right before the branch, which follows unchanged, and run on
\* flag it calls passed_bool_predicate with (flag, p).
C8_PlacementAndArguments ==
  \A pr \in InstrumentedPairs :
    LET o == pr[1]
        n == pr[2]
        pos == OrigPositions(n.instrs, 1)
    IN  \A k \in CondJumps(o.instrs) :
          /\ k <= Len(pos)
          /\ n.instrs[pos[k]] = o.instrs[k]
          /\ IF AfterCompare(o.instrs, k)
             THEN LET p == ProbeBefore(n.instrs, pos[k - 1])
                      stmts == SubSeq(n.instrs, pos[k - 1] - p.len, pos[k - 1] - 1)
                  IN  /\ p.kind = "cmp"
                      /\ n.instrs[pos[k - 1]] = o.instrs[k - 1]
                      /\ pos[k] = pos[k - 1] + 1
                      /\ p.op = o.instrs[k - 1].arg
                      /\ \E e \in 1..Len(events) : events[e] = Registered("predicate", p.id)
                      /\ \A a \in StackValues, b \in StackValues :
                           RunProbe(stmts, << a, b >>).calls
                             = HookCall("passed_cmp_predicate",
                                        << a, b, IntV(p.id), o.instrs[k - 1].arg >>)
             ELSE LET p == ProbeBefore(n.instrs, pos[k])
                      stmts == SubSeq(n.instrs, pos[k] - p.len, pos[k] - 1)
                  IN  /\ p.kind = "bool"
                      /\ \E e \in 1..Len(events) : events[e] = Registered("predicate", p.id)
                      /\ \A flag \in StackValues :
                           RunProbe(stmts, << flag >>).calls
                             = HookCall("passed_bool_predicate", << flag, IntV(p.id) >>)

\* Both scenarios in one unit: LOAD a, LOAD b, COMPARE, JUMP and LOAD a, JUMP.
C8_Witness ==
  /\ "f1" \in flagged
  /\ code0["f1"] = OuterUnit
  /\ predicate_id > 2

\* C10: an instrumented unit that had no instruction holds the function-entry
\* probe and nothing else.
C10_EmptyUnitGetsEntryProbe ==
  \A pr \in InstrumentedPairs :
    Len(pr[1].instrs) = 0 =>
      /\ ProbeAt(pr[2].instrs, 1).kind = "entered"
      /\ Len(pr[2].instrs) = Len(FunctionEnteredStmts(0))

(***************************************************************************)
(* Claims about the coordinator (Spec)                                      *)
(***************************************************************************)
\* C1: a step that passes an already flagged function to instrument_function
\* raises the assertion and writes nothing: the code, both counters, the
\* tracer's registrations, the flags and the tracer bindings stay as they were.
C1_GuardRaisesAndWritesNothing ==
  [][(attempt' # NoAttempt /\ attempt'.fn \in flagged) =>
       /\ pc' = "failed"
       /\ attempt'.was_flagged
       /\ UNCHANGED <<code, predicate_id, function_id, events, flagged, tracer_bound>>]_vars

\* A second instrument call over an object whose function the first call
\* instrumented has raised.
C1_Witness ==
  /\ pc = "failed"
  /\ attempt.was_flagged
  /\ attempt.fn \in flagged
  /\ Len(expanded) >= 1
  /\ handed = << attempt.fn >>

\* C2: within one invocation no function is passed to instrument_function
\* more than once.
C2_NoFunctionHandedTwice ==
  \A i \in DOMAIN handed : \A j \in DOMAIN handed : i # j => handed[i] # handed[j]

\* The IDs of the probes of the given kinds standing in unit u, nested units
\* first (in pool order), then the unit's own probes in instruction order.
RECURSIVE IdSeq(_, _)
RECURSIVE ConstsIdSeq(_, _, _)
ConstsIdSeq(consts, n, kinds) ==
  IF n = 0 THEN << >>
  ELSE ConstsIdSeq(consts, n - 1, kinds)
         \o (IF has_co_code(consts[n]) THEN IdSeq(consts[n], kinds) ELSE << >>)

IdSeq(u, kinds) ==
  LET OfKind(p) == p.kind \in kinds
      own == SelectSeq(ProbeList(u.instrs, 1), OfKind)
  IN  ConstsIdSeq(u.consts, Len(u.consts), kinds) \o [i \in 1..Len(own) |-> own[i].id]

\* The IDs standing in the code of all functions.
CodeIds(kinds) == IdSeq(code["f1"], kinds) \o IdSeq(code["f2"], kinds)

Range(seq) == {seq[i] : i \in 1..Len(seq)}
NoRepeat(seq) == Cardinality(Range(seq)) = Len(seq)
Increasing(seq) == \A i \in 1..(Len(seq) - 1) : seq[i] < seq[i + 1]

RegisteredIds(kind) == {events[e].id : e \in {x \in 1..Len(events) :
                                                 events[x] = Registered(kind, events[x].id)}}

InsertedIds(kind) == {events[e].id : e \in {x \in 1..Len(events) :
                                               events[x] = Inserted(kind, events[x].id)}}

\* C5: the IDs of the probes inserted so far are non-negative and strictly
\* increasing in order of insertion, predicate IDs and function IDs each on
\* their own; the IDs standing in a function's code increase in the order the
\* probes were put there, no two probes in the code of any functions carry
\* the same ID of their kind, and the IDs in the code are the inserted ones.
C5_IdsUniqueAndIncreasing ==
  LET p1 == IdSeq(code["f1"], {"bool", "cmp"})
      p2 == IdSeq(code["f2"], {"bool", "cmp"})
      e1 == IdSeq(code["f1"], {"entered"})
      e2 == IdSeq(code["f2"], {"entered"})
  IN  /\ \A i \in 1..Len(events) : events[i].id >= 0
      /\ \A i \in 1..Len(events) : \A j \in (i + 1)..Len(events) :
           (events[i].ev = "insert" /\ events[j].ev = "insert"
              /\ events[i].kind = events[j].kind) => events[i].id < events[j].id
      /\ Increasing(p1) /\ Increasing(p2) /\ Increasing(e1) /\ Increasing(e2)
      /\ NoRepeat(p1 \o p2)
      /\ NoRepeat(e1 \o e2)
      /\ Range(p1 \o p2) = InsertedIds("predicate")
      /\ Range(e1 \o e2) = InsertedIds("function")

\* Two functions instrumented in one invocation, nested units among them.
C5_Witness ==
  /\ pc = "done"
  /\ Len(handed) = 2
  /\ flagged = Functions
  /\ function_id >= 3
  /\ predicate_id >= 3

\* C6: every insertion of a probe is preceded by exactly one registration of
\* its ID with the tracer, every registration is followed by the insertion of
\* a probe carrying that ID, and when no call is under way the IDs registered
\* are exactly those of the probes standing in the code.
C6_RegisteredBeforeInserted ==
  /\ \A j \in 1..Len(events) :
       events[j].ev = "insert" =>
         LET reg == Registered(events[j].kind, events[j].id)
         IN  /\ Cardinality({i \in 1..Len(events) : events[i] = reg}) = 1
             /\ \E i \in 1..(j - 1) : events[i] = reg
  /\ \A i \in 1..Len(events) :
       events[i].ev = "register" =>
         LET ins == Inserted(events[i].kind, events[i].id)
         IN  \E j \in (i + 1)..Len(events) : events[j] = ins
  /\ pc # "running" =>
       /\ Range(CodeIds({"bool", "cmp"})) = RegisteredIds("predicate")
       /\ Range(CodeIds({"entered"})) = RegisteredIds("function")

\* An instrument run that completed after instrumenting a function with a
\* comparison branch, a boolean branch and a nested unit.
C6_Witness ==
  /\ pc = "done"
  /\ Len(expanded) >= 1
  /\ "f1" \in flagged
  /\ code0["f1"] = OuterUnit
  /\ Len(events) >= 2 * 5

ExpandedOnce ==
  \A i \in DOMAIN expanded : \A j \in DOMAIN expanded : i # j => expanded[i] # expanded[j]

\* Steps the invocation under way can still take: what each call on the stack
\* has left to do, and what entering each object not yet seen would add.
RECURSIVE Sum(_, _)
Sum(f, S) ==
  IF S = {} THEN 0
  ELSE LET x == CHOOSE y \in S : TRUE IN f[x] + Sum(f, S \ {x})

Rank ==
  LET Unseen == [c \in Containers \ seen |-> 2 * Len(members[c]) + 1]
      Left == [n \in 1..Len(stack) |->
                 IF stack[n].entered
                 THEN 2 * (Len(members[stack[n].obj]) - stack[n].i + 1) + 1
                 ELSE 1]
  IN  Sum(Unseen, Containers \ seen) + Sum(Left, 1..Len(stack))

\* The guards of InstrumentEnter, InstrumentMember and InstrumentReturn: one
\* of them is open whenever a call stands on the stack.
CanStep ==
  /\ stack # << >>
  /\ \/ ~TopFrame.entered
     \/ TopFrame.i <= Len(members[TopFrame.obj])
     \/ TopFrame.i > Len(members[TopFrame.obj])

\* C9: an instrument invocation under way never enumerates the members of one
\* object twice and always ends, by returning or by raising: while it runs it
\* can take a step, and every step it takes lowers Rank, which is never
\* negative and starts bounded by the size of the graph.
C9_WalkTerminates ==
  /\ [](ExpandedOnce /\ Rank >= 0 /\ (pc = "running" => CanStep))
  /\ [][pc = "running" => Rank' < Rank]_vars

\* A walk over two containers that are members of each other, and of
\* themselves, has returned.
C9_Witness ==
  /\ pc = "done"
  /\ \E c \in Containers : \E d \in Containers :
       /\ c # d
       /\ \E i \in DOMAIN members[c] : members[c][i] = d
       /\ \E i \in DOMAIN members[d] : members[d][i] = c
       /\ \E i \in DOMAIN members[d] : members[d][i] = d
       /\ expanded = << c, d >>

(***************************************************************************)
(* Claim about the probes' bytecode (ProbeSpec)                             *)
(***************************************************************************)
\* C7: a probe of instrumented code, run from a stack that holds its
\* operands, leaves the stack as it found it, in depth and in content, after
\* calling exactly one hook, whose return value it has popped.
C7_StackNeutral ==
  probe.kind # "none" =>
    /\ stack_out = stack_in
    /\ Len(stack_out) - Len(stack_in) = 0
    /\ Len(calls) = 1
    /\ \A i \in 1..Len(stack_out) : stack_out[i].k # "result"

\* A comparison probe run on two different operands above a third value.
C7_Witness ==
  /\ probe.kind = "cmp"
  /\ Len(stack_in) = 3
  /\ stack_in[2] # stack_in[3]
  /\ Len(calls) = 1

====
